---- MODULE Spec2Model ----
(***************************************************************************)
(* A model of the L1-TLB ring NoC (akita/mem/vm/tlb/ring_noc.go) and of    *)
(* the GMMU translation pipeline (akita/mem/vm/gmmu/comp.go).              *)
(*                                                                         *)
(* The two components share no state; RingSpec runs the ring, GmmuSpec     *)
(* runs the GMMU.  Every handler is one atomic action: it is written as an *)
(* operator from a state record to a state record, so that the calls a     *)
(* handler makes (SendProbeRequest -> NotifyMiss, conn.Cycle ->            *)
(* DeliverMessage -> ReceiveProbeRequest, ...) compose as in the code.     *)
(*                                                                         *)
(* Go slices are sequences (1-based here, 0-based in the code); a nil      *)
(* pointer is the empty sequence << >> and a non-nil one is << v >>.       *)
(***************************************************************************)
EXTENDS Integers, Sequences, FiniteSets, TLC

(***************************************************************************)
(* Program constants.                                                      *)
(***************************************************************************)
NumTLBs == 16
ClockwiseTTL == 15
CounterclockwiseTTL == 4
TestCyclesHit == 10
TestCyclesMiss == 20
ProbeQueueCapacity == 16

(***************************************************************************)
(* Bounds of the model.                                                    *)
(***************************************************************************)
NumWays == 2
MaxReqs == 2
MaxInits == 1
PortCap == 1
AgeCap == 21
MaxExternal == 1
\* InitiateProbing calls of a burst (RingBurstSpec): enough to put more than
\* ProbeQueueCapacity probes on one ProbeQueue.
MaxBurst == 9
\* Of the GMMU: the builder's defaults are 16 requests in flight, a latency of
\* 10 cycles and sender buffers of 4096 messages.
maxRequestsInFlight == 2
latency == 2
TopSenderCapacity == 1
MaxClientReqs == 3
BottomPortCap == 1

TLBIDs == 0 .. (NumTLBs - 1)
\* The TLBs that receive client requests and start probes in the model.
Originators == {0, 15}
\* The TLBs that may hold the preloaded page in the initial state.
Holders == {0, 1}
PIDs == {0, 1}
VAddrs == {1, 2}
\* The virtual address of the preloaded page.
HeldVAddr == CHOOSE v \in VAddrs : \A w \in VAddrs : v <= w
MaxID == 2 * (IF MaxInits > MaxBurst THEN MaxInits ELSE MaxBurst)

\* The zero value of vm.Page.
NoPage == [PID |-> 0, VAddr |-> 0, PAddr |-> 0, DeviceID |-> 0, Valid |-> FALSE]
\* The page a holder TLB h is preloaded with (its PAddr tells holders apart).
HeldPage(h, pid) ==
    [PID |-> pid, VAddr |-> HeldVAddr, PAddr |-> 100 + h, DeviceID |-> 1, Valid |-> TRUE]

MaxOf(S) == CHOOSE x \in S : \A y \in S : y <= x
MinOf(S) == CHOOSE x \in S : \A y \in S : x <= y

VARIABLES
    tlbSet,          \* tlbSet[t]: the one set of TLB t: [blocks, visitList]
    prefetchBuffer,  \* prefetchBuffer[t]: sequence of pages
    mshr,            \* mshr[t]: sequence of entries [PID, VAddr, Requests, reqToBottom]
    probeQueue,      \* probeQueue[t]: sequence of ProbeRequests
    conn,            \* messages handed to the ring connection, not yet delivered
    topSent,         \* topSent[t]: TranslationRsps accepted by t's top port
    botSent,         \* botSent[t]: TranslationReqs accepted by t's bottom port
    nextID,          \* the ID generator
    reqsAdded,       \* number of client requests put into an MSHR so far
    initLog,         \* history: one record per InitiateProbing call
    termResp,        \* history: termResp[id] = ProbeResponses delivered for probe id
    termExpiry,      \* history: termExpiry[id] = TTL expiries of probe id
    drainLog,        \* history: MSHR entries drained by a valid ProbeResponse
    botRefused,      \* history: TLBs whose bottom port refused a Send
    lastCycle,       \* what the last RingNoC.Cycle call did and returned
    deliverLog       \* what the last external RingNoC.DeliverMessage call returned

ringVars == <<tlbSet, prefetchBuffer, mshr, probeQueue, conn, topSent, botSent,
              nextID, reqsAdded, initLog, termResp, termExpiry, drainLog,
              botRefused, lastCycle, deliverLog>>

VARIABLES
    deviceID,             \* Comp.deviceID
    gmmuTopPort,          \* TranslationReqs waiting in the GMMU's top port
    gmmuBottomPort,       \* TranslationRsps waiting in the GMMU's bottom port
    topSender,            \* the buffer of the top BufferedSender
    walkingTranslations,  \* Comp.walkingTranslations
    remoteMemReqs,        \* Comp.remoteMemReqs: vAddr -> << transaction >> or << >>
    pageTable,            \* Comp.pageTable: <<pid, vAddr>> -> << page >> or << >>
    cuckooFilter,         \* the keys the Cuckoo filter holds
    gmmuNextID,           \* the ID generator
    panicked,             \* the GMMU ran into a nil dereference
    clientReqs,           \* history: number of TranslationReqs clients have sent
    retrieved,            \* history: the TranslationReqs parseFromTop retrieved
    topSenderLog,         \* history: every TranslationRsp enqueued on the top sender
    bottomSent,           \* history: the TranslationReqs the bottom port accepted
    answered,             \* history: indices of bottomSent the low module answered
    lastTick,             \* history: what parseFromTop did in the last Tick
    walkLog,              \* history: the page walk of each retrieved TranslationReq
    twin                  \* a second GMMU, given the same requests (GmmuPairSpec)

gmmuVars == <<deviceID, gmmuTopPort, gmmuBottomPort, topSender, walkingTranslations,
              remoteMemReqs, pageTable, cuckooFilter, gmmuNextID, panicked,
              clientReqs, retrieved, topSenderLog, bottomSent, answered, lastTick,
              walkLog, twin>>

vars == <<ringVars, gmmuVars>>

(***************************************************************************)
(* The set of a TLB (Set.Lookup, Update, Visit, Evict).                    *)
(***************************************************************************)
EmptySet == [blocks |-> [w \in 1 .. NumWays |-> NoPage],
             visitList |-> [w \in 1 .. NumWays |-> w]]

\* << page >> of the way holding (pid, vAddr), << >> when there is none.
SetLookup(set, pid, vAddr) ==
    LET ways == {w \in 1 .. NumWays :
                    set.blocks[w].PID = pid /\ set.blocks[w].VAddr = vAddr}
        pos(w) == MaxOf({i \in 1 .. Len(set.visitList) : set.visitList[i] = w} \cup {0})
    IN  IF ways = {} THEN << >>
        ELSE << set.blocks[CHOOSE w \in ways : \A x \in ways : pos(x) <= pos(w)] >>

SetUpdate(set, wayID, page) == [set EXCEPT !.blocks[wayID] = page]

SetVisit(set, wayID) ==
    [set EXCEPT !.visitList = Append(SelectSeq(@, LAMBDA w : w # wayID), wayID)]

\* The least recently visited way leaves the visit list; ok is false when the
\* list is empty.
SetEvict(set) ==
    IF Len(set.visitList) = 0
    THEN [ok |-> FALSE, wayID |-> 0, set |-> set]
    ELSE [ok |-> TRUE, wayID |-> Head(set.visitList),
          set |-> [set EXCEPT !.visitList = Tail(@)]]

(***************************************************************************)
(* The MSHR of a TLB (Query/GetEntry, Add, Remove).                        *)
(***************************************************************************)
\* << index >> of the entry of (pid, vAddr), << >> when there is none.
MSHRQuery(m, pid, vAddr) ==
    LET idx == {i \in 1 .. Len(m) : m[i].PID = pid /\ m[i].VAddr = vAddr}
    IN  IF idx = {} THEN << >> ELSE << MinOf(idx) >>

MSHRRemove(m, pid, vAddr) ==
    SelectSeq(m, LAMBDA e : ~(e.PID = pid /\ e.VAddr = vAddr))

(***************************************************************************)
(* The state record the handlers work on.  topFree[t] and botFree[t] are   *)
(* the Sends t's top and bottom port still accept during the current call  *)
(* (a port is non-blocking and answers success or busy); the environment  *)
(* of the ports chooses them anew for every call.                          *)
(***************************************************************************)
RingState(topAcc, botAcc) ==
    [tlbSet |-> tlbSet, prefetchBuffer |-> prefetchBuffer, mshr |-> mshr,
     probeQueue |-> probeQueue, conn |-> conn, topSent |-> topSent,
     botSent |-> botSent, termResp |-> termResp, termExpiry |-> termExpiry,
     drainLog |-> drainLog, botRefused |-> botRefused,
     topFree |-> [t \in TLBIDs |-> topAcc],
     botFree |-> [t \in TLBIDs |-> botAcc],
     madeProgress |-> FALSE, dequeued |-> {}, delivered |-> 0]

PortChoices == 0 .. PortCap

(***************************************************************************)
(* RingNoC.GetNextTLB                                                      *)
(***************************************************************************)
GetNextTLB(currentTLBID, direction) ==
    IF direction = "clockwise"
    THEN << (currentTLBID + 1) % NumTLBs >>
    ELSE IF direction = "counterclockwise"
         THEN << (currentTLBID - 1 + NumTLBs) % NumTLBs >>
         ELSE << >>

(***************************************************************************)
(* L1TLB.NotifyMiss                                                        *)
(***************************************************************************)
\* Mutant: the request goes out but is not kept in reqToBottom.
RECURSIVE NotifyMissLoopNoStash(_, _, _, _, _)
NotifyMissLoopNoStash(s, t, e, virtualAddr, i) ==
    IF i > Len(s.mshr[t][e].Requests) THEN s
    ELSE LET req == s.mshr[t][e].Requests[i]
             fetchReq == [Dst |-> "LowModule", PID |-> req.PID,
                          VAddr |-> virtualAddr, DeviceID |-> req.DeviceID]
         IN  IF s.botFree[t] > 0
             THEN NotifyMissLoopNoStash(
                      [s EXCEPT !.botSent[t] = Append(@, fetchReq),
                                !.botFree[t] = @ - 1],
                      t, e, virtualAddr, i + 1)
             ELSE NotifyMissLoopNoStash([s EXCEPT !.botRefused = @ \cup {t}],
                                        t, e, virtualAddr, i + 1)

RECURSIVE NotifyMissLoop(_, _, _, _, _)
NotifyMissLoop(s, t, e, virtualAddr, i) ==
    IF i > Len(s.mshr[t][e].Requests) THEN s
    ELSE LET req == s.mshr[t][e].Requests[i]
             fetchReq == [Dst |-> "LowModule", PID |-> req.PID,
                          VAddr |-> virtualAddr, DeviceID |-> req.DeviceID]
         IN  IF s.botFree[t] > 0
             THEN NotifyMissLoop(
                      [s EXCEPT !.botSent[t] = Append(@, fetchReq),
                                !.botFree[t] = @ - 1,
                                !.mshr[t][e].reqToBottom = << fetchReq >>],
                      t, e, virtualAddr, i + 1)
             ELSE NotifyMissLoop([s EXCEPT !.botRefused = @ \cup {t}],
                                 t, e, virtualAddr, i + 1)

NotifyMiss(s, t, virtualAddr) ==
    LET mshrEntry == MSHRQuery(s.mshr[t], 0, virtualAddr)
    IN  IF mshrEntry = << >> THEN s
        ELSE NotifyMissLoop(s, t, mshrEntry[1], virtualAddr, 1)

(***************************************************************************)
(* L1TLB.SendProbeRequest                                                  *)
(***************************************************************************)
\* Mutant: the TTL is not decremented when the probe is forwarded.
SendProbeRequestNoDecrement(s, t, req) ==
    LET nextTLB == GetNextTLB(t, req.Direction)
    IN  IF nextTLB # << >> /\ req.TTL > 0
        THEN [s EXCEPT !.conn = Append(@, [req EXCEPT !.Src = << t >>,
                                                       !.Dst = nextTLB])]
        ELSE [NotifyMiss(s, req.SourceTLB, req.VirtualAddr)
                 EXCEPT !.termExpiry[req.ID] = @ + 1]

SendProbeRequest(s, t, req) ==
    LET nextTLB == GetNextTLB(t, req.Direction)
    IN  IF nextTLB # << >> /\ req.TTL > 0
        THEN [s EXCEPT !.conn = Append(@, [req EXCEPT !.TTL = @ - 1,
                                                       !.Src = << t >>,
                                                       !.Dst = nextTLB])]
        ELSE [NotifyMiss(s, req.SourceTLB, req.VirtualAddr)
                 EXCEPT !.termExpiry[req.ID] = @ + 1]

(***************************************************************************)
(* L1TLB.ReceiveProbeRequest                                               *)
(***************************************************************************)
ProbeResponse(t, req, page) ==
    [type |-> "ProbeResponse", Src |-> << t >>, Dst |-> << req.SourceTLB >>,
     VirtualAddr |-> req.VirtualAddr, Page |-> << page >>,
     SourceTLB |-> req.SourceTLB,
     probe |-> req.ID]   \* history: the ProbeRequest this response answers

ReceiveProbeRequest(s, t, req) ==
    LET hit == SetLookup(s.tlbSet[t], req.PID, req.VirtualAddr)
        buf == s.prefetchBuffer[t]
        pf  == {i \in 1 .. Len(buf) : /\ buf[i].PID = req.PID
                                      /\ buf[i].VAddr = req.VirtualAddr
                                      /\ buf[i].Valid}
    IN  IF hit # << >> /\ hit[1].Valid
        THEN [s EXCEPT !.conn = Append(@, ProbeResponse(t, req, hit[1]))]
        ELSE IF pf # {}
             THEN [s EXCEPT !.conn = Append(@, ProbeResponse(t, req, buf[MinOf(pf)]))]
             ELSE [s EXCEPT !.probeQueue[t] = Append(@, req)]

(***************************************************************************)
(* L1TLB.ReceiveProbeResponse                                              *)
(***************************************************************************)
RECURSIVE DrainLoop(_, _, _, _, _)
DrainLoop(s, t, requests, page, i) ==
    IF i > Len(requests) THEN s
    ELSE LET req == requests[i]
             translationRsp == [Src |-> t, Dst |-> req.Src, RspTo |-> req.ID,
                                Page |-> page]
         IN  IF s.topFree[t] > 0
             THEN DrainLoop([s EXCEPT !.topSent[t] = Append(@, translationRsp),
                                      !.topFree[t] = @ - 1],
                            t, requests, page, i + 1)
             ELSE DrainLoop(s, t, requests, page, i + 1)

ReceiveProbeResponse(s, t, rsp) ==
    IF rsp.Page # << >> /\ rsp.Page[1].Valid
    THEN LET page == rsp.Page[1]
             ev   == SetEvict(s.tlbSet[t])
             \* set.Evict() cannot fail here: every way is on the visit list
             s1   == [s EXCEPT !.tlbSet[t] =
                          SetVisit(SetUpdate(ev.set, ev.wayID, page), ev.wayID)]
             mshrEntry == MSHRQuery(s1.mshr[t], page.PID, rsp.VirtualAddr)
         IN  IF mshrEntry # << >>
             THEN LET requests == s1.mshr[t][mshrEntry[1]].Requests
                      s2 == DrainLoop(s1, t, requests, page, 1)
                  IN  [s2 EXCEPT
                          !.mshr[t] = MSHRRemove(@, page.PID, rsp.VirtualAddr),
                          !.drainLog = @ \cup {[tlb |-> t, page |-> page,
                                                reqs |-> {requests[i].ID : i \in 1 .. Len(requests)}]}]
             ELSE s1
    ELSE NotifyMiss(s, t, rsp.VirtualAddr)

(***************************************************************************)
(* RingNoC.DeliverMessage: the new state and the returned boolean.         *)
(***************************************************************************)
\* Mutant: the ProbeResponse case falls through to the final return false.
DeliverMessageResponseFalse(s, msg) ==
    IF msg.type = "ProbeRequest"
    THEN [st |-> ReceiveProbeRequest(s, msg.SourceTLB, msg), ret |-> TRUE]
    ELSE IF msg.type = "ProbeResponse"
         THEN [st |-> [ReceiveProbeResponse(s, msg.SourceTLB, msg)
                          EXCEPT !.termResp[msg.probe] = @ + 1],
               ret |-> FALSE]
         ELSE [st |-> s, ret |-> FALSE]

DeliverMessage(s, msg) ==
    IF msg.type = "ProbeRequest"
    THEN [st |-> ReceiveProbeRequest(s, msg.SourceTLB, msg), ret |-> TRUE]
    ELSE IF msg.type = "ProbeResponse"
         THEN [st |-> [ReceiveProbeResponse(s, msg.SourceTLB, msg)
                          EXCEPT !.termResp[msg.probe] = @ + 1],
               ret |-> TRUE]
         ELSE [st |-> s, ret |-> FALSE]

(***************************************************************************)
(* The ring connection, a one-cycle switched connection: conn.Send(msg)    *)
(* is Append(conn, msg) above; conn.Cycle(now) hands every message that is *)
(* in the connection when it is called to the plugged-in ring              *)
(* (DeliverMessage), in the order sent.  What a delivery sends waits for   *)
(* the next conn.Cycle.                                                    *)
(***************************************************************************)
RECURSIVE ConnDeliver(_, _, _)
ConnDeliver(s, msgs, i) ==
    IF i > Len(msgs) THEN s
    ELSE ConnDeliver([DeliverMessage(s, msgs[i]).st EXCEPT !.delivered = @ + 1],
                     msgs, i + 1)

ConnCycle(s) == ConnDeliver([s EXCEPT !.conn = << >>], s.conn, 1)

(***************************************************************************)
(* RingNoC.Cycle                                                           *)
(***************************************************************************)
\* Mutant: a TLB's ProbeQueue is drained to the end before the next TLB's.
RECURSIVE CycleLoopDrainAll(_, _)
CycleLoopDrainAll(s, i) ==
    IF i >= NumTLBs THEN s
    ELSE IF Len(s.probeQueue[i]) > 0
         THEN LET req == s.probeQueue[i][1]
                  s1  == [s EXCEPT !.probeQueue[i] = Tail(@),
                                   !.dequeued = @ \cup {<<i, req.ID>>}]
              IN  CycleLoopDrainAll(
                      [SendProbeRequest(s1, i, req) EXCEPT !.madeProgress = TRUE], i)
         ELSE CycleLoopDrainAll(s, i + 1)

RECURSIVE CycleLoop(_, _)
CycleLoop(s, i) ==
    IF i >= NumTLBs THEN s
    ELSE IF Len(s.probeQueue[i]) > 0
         THEN LET req == s.probeQueue[i][1]
                  s1  == [s EXCEPT !.probeQueue[i] = Tail(@),
                                   !.dequeued = @ \cup {<<i, req.ID>>}]
              IN  CycleLoop([SendProbeRequest(s1, i, req) EXCEPT !.madeProgress = TRUE],
                            i + 1)
         ELSE CycleLoop(s, i + 1)

CycleOp(s) == ConnCycle(CycleLoop(s, 0))

(***************************************************************************)
(* Actions of the ring.                                                    *)
(***************************************************************************)
SetRing(s) ==
    /\ tlbSet' = s.tlbSet
    /\ prefetchBuffer' = s.prefetchBuffer
    /\ mshr' = s.mshr
    /\ probeQueue' = s.probeQueue
    /\ conn' = s.conn
    /\ topSent' = s.topSent
    /\ botSent' = s.botSent
    /\ termResp' = s.termResp
    /\ termExpiry' = s.termExpiry
    /\ drainLog' = s.drainLog
    /\ botRefused' = s.botRefused

\* A client TranslationReq that missed in TLB t waits in t's MSHR: a new entry
\* for its key, or one more request on the entry the key already has.
MSHRAdd(t, pid, vAddr) ==
    /\ reqsAdded < MaxReqs
    /\ LET req == [ID |-> 1000 + reqsAdded, Src |-> 2000 + reqsAdded,
                   PID |-> pid, VAddr |-> vAddr, DeviceID |-> 1]
           e   == MSHRQuery(mshr[t], pid, vAddr)
       IN  mshr' = [mshr EXCEPT ![t] =
                       IF e = << >>
                       THEN Append(@, [PID |-> pid, VAddr |-> vAddr,
                                       Requests |-> << req >>,
                                       reqToBottom |-> << >>])
                       ELSE [@ EXCEPT ![e[1]].Requests = Append(@, req)]]
    /\ reqsAdded' = reqsAdded + 1
    /\ UNCHANGED <<tlbSet, prefetchBuffer, probeQueue, conn, topSent, botSent,
                   nextID, initLog, termResp, termExpiry, drainLog, botRefused,
                   lastCycle, deliverLog, gmmuVars>>

\* L1TLB.InitiateProbing, however often it has been called.
InitiateProbingCall(t, virtualAddr) ==
    /\ LET probe(id, ttl, dir) ==
               [type |-> "ProbeRequest", ID |-> id, Src |-> << t >>, Dst |-> << >>,
                VirtualAddr |-> virtualAddr, TTL |-> ttl, Direction |-> dir,
                SourceTLB |-> t,
                PID |-> 0]   \* never assigned by the code: the zero value
           clockwiseReq == probe(nextID, ClockwiseTTL, "clockwise")
           counterclockwiseReq == probe(nextID + 1, CounterclockwiseTTL, "counterclockwise")
       IN  /\ probeQueue' = [probeQueue EXCEPT ![t] =
                                @ \o << clockwiseReq, counterclockwiseReq >>]
           /\ initLog' = Append(initLog,
                  [tlb |-> t, vAddr |-> virtualAddr, cw |-> nextID, ccw |-> nextID + 1,
                   age |-> 0,
                   hadEntry |-> MSHRQuery(mshr[t], 0, virtualAddr) # << >>,
                   queueWasEmpty |-> probeQueue[t] = << >>])
    /\ nextID' = nextID + 2
    /\ UNCHANGED <<tlbSet, prefetchBuffer, mshr, conn, topSent, botSent, reqsAdded,
                   termResp, termExpiry, drainLog, botRefused, lastCycle, deliverLog,
                   gmmuVars>>

\* L1TLB.InitiateProbing
InitiateProbing(t, virtualAddr) ==
    /\ Len(initLog) < MaxInits
    /\ InitiateProbingCall(t, virtualAddr)

\* L1TLB.InitiateProbing called for one miss after the other before the ring
\* is cycled again: no probe on its way has been forwarded yet.
InitiateProbingBurst(t, virtualAddr) ==
    /\ Len(initLog) < MaxBurst
    /\ conn = << >>
    /\ \A u \in TLBIDs : \A n \in 1 .. Len(probeQueue[u]) :
           probeQueue[u][n].TTL = (IF probeQueue[u][n].Direction = "clockwise"
                                   THEN ClockwiseTTL ELSE CounterclockwiseTTL)
    /\ InitiateProbingCall(t, virtualAddr)

\* Both probes of InitiateProbing call k have terminated.
Terminated(k) ==
    /\ termResp[k.cw] + termExpiry[k.cw] > 0
    /\ termResp[k.ccw] + termExpiry[k.ccw] > 0

\* RingNoC.Cycle; each port accepts what its environment lets it accept.  The
\* age of an InitiateProbing call counts the Cycles run while it has a probe
\* that has not terminated.
Cycle ==
    \E topAcc \in PortChoices, botAcc \in PortChoices :
        \E s \in {CycleOp(RingState(topAcc, botAcc))} :
            /\ SetRing(s)
            /\ lastCycle' = [madeProgress |-> s.madeProgress,
                             dequeued |-> s.dequeued, delivered |-> s.delivered]
            /\ initLog' = [k \in 1 .. Len(initLog) |->
                              [initLog[k] EXCEPT !.age =
                                  IF @ < AgeCap /\ ~Terminated(initLog[k]) THEN @ + 1 ELSE @]]
            /\ UNCHANGED <<nextID, reqsAdded, deliverLog, gmmuVars>>

(***************************************************************************)
(* A caller outside the connection hands a message to                      *)
(* RingNoC.DeliverMessage, as TestRingNoCDeliverMessage does.              *)
(***************************************************************************)
ExternalSources == {0, 1}

ExternalMsgs ==
    {[type |-> "ProbeRequest", ID |-> 0, Src |-> << s >>, Dst |-> << d >>,
      VirtualAddr |-> HeldVAddr, TTL |-> ttl, Direction |-> "counterclockwise",
      SourceTLB |-> s, PID |-> 0] :
        s \in ExternalSources, d \in {15}, ttl \in {0, CounterclockwiseTTL}}
    \cup
    {[type |-> "ProbeResponse", Src |-> << 15 >>, Dst |-> << s >>,
      VirtualAddr |-> HeldVAddr, Page |-> pg, SourceTLB |-> s, probe |-> 0] :
        s \in ExternalSources,
        pg \in {<< >>, << NoPage >>, << HeldPage(15, 0) >>, << HeldPage(15, 1) >>}}
    \cup
    {[type |-> "TranslationReq", Src |-> << s >>, Dst |-> << 15 >>,
      VirtualAddr |-> HeldVAddr, SourceTLB |-> s] : s \in ExternalSources}

ExternalDeliver(msg) ==
    /\ deliverLog.n < MaxExternal
    /\ \E topAcc \in PortChoices, botAcc \in PortChoices :
          \E r \in {DeliverMessage(RingState(topAcc, botAcc), msg)} :
              /\ SetRing(r.st)
              /\ deliverLog' = [n |-> deliverLog.n + 1, msg |-> msg, ret |-> r.ret,
                                 noEntry |-> mshr[msg.SourceTLB] = << >>]
    /\ UNCHANGED <<nextID, reqsAdded, initLog, lastCycle, gmmuVars>>

(***************************************************************************)
(* The GMMU (gmmu/comp.go).                                                *)
(***************************************************************************)
GmmuPIDs == {0, 1}
GmmuVAddrs == {1}
GmmuKeys == GmmuPIDs \X GmmuVAddrs
\* A device other than the GMMU's (deviceID is 0 or 1).
RemoteDevice == 2
\* Where the count of a walk's Ticks stops.
WalkAgeCap == latency + 1

\* binary.LittleEndian.PutUint64 / PutUint32: the n low bytes of x.
RECURSIVE LittleEndian(_, _)
LittleEndian(x, n) ==
    IF n = 0 THEN << >> ELSE << x % 256 >> \o LittleEndian(x \div 256, n - 1)

\* Comp.encodeVAddrPID
encodeVAddrPID(vAddr, pid) == LittleEndian(vAddr, 8) \o LittleEndian(pid, 4)

\* vm.PageTable.Find: the zero Page and false when the key has no page.
PageTableFind(pt, pid, vAddr) ==
    IF <<pid, vAddr>> \in DOMAIN pt /\ pt[<<pid, vAddr>>] # << >>
    THEN [page |-> pt[<<pid, vAddr>>][1], found |-> TRUE]
    ELSE [page |-> NoPage, found |-> FALSE]

\* vm.PageTable.Update
PageTableUpdate(pt, page) ==
    [k \in DOMAIN pt \cup {<<page.PID, page.VAddr>>} |->
        IF k = <<page.PID, page.VAddr>> THEN << page >> ELSE pt[k]]

\* The record the steps of a Tick work on.  portOK: the top port accepts the
\* top sender's Send; falsePositive: the filter answers true for a key it does
\* not hold; botAcc: the Sends the bottom port accepts; insertOK: the filter's
\* Insert succeeds.
GmmuState(portOK, falsePositive, botAcc, insertOK) ==
    [gmmuTopPort |-> gmmuTopPort, gmmuBottomPort |-> gmmuBottomPort,
     topSender |-> topSender, walkingTranslations |-> walkingTranslations,
     remoteMemReqs |-> remoteMemReqs, pageTable |-> pageTable,
     cuckooFilter |-> cuckooFilter, gmmuNextID |-> gmmuNextID,
     panicked |-> panicked, retrieved |-> retrieved,
     topSenderLog |-> topSenderLog, bottomSent |-> bottomSent,
     toRemoveFromPTW |-> {}, madeProgress |-> FALSE,
     refused |-> {}, escalated |-> {},
     portOK |-> portOK, falsePositive |-> falsePositive,
     botFree |-> botAcc, insertOK |-> insertOK]

\* BufferedSender.CanSend(1)
CanSend(s) == TopSenderCapacity - Len(s.topSender) >= 1

\* BufferedSender.Send
TopSenderSend(s, rsp) ==
    [s EXCEPT !.topSender = Append(@, rsp), !.topSenderLog = Append(@, rsp)]

\* BufferedSender.Tick: the head of the buffer goes to the port if the port
\* takes it.
TopSenderTick(s) ==
    IF s.topSender # << >> /\ s.portOK
    THEN [s EXCEPT !.topSender = Tail(@), !.madeProgress = TRUE]
    ELSE s

\* Mutant: the walk starts with one cycle less than the latency.
startWalkingShort(s, req) ==
    [s EXCEPT !.walkingTranslations =
        Append(@, [req |-> req, page |-> NoPage, cycleLeft |-> latency - 1])]

\* Comp.startWalking
startWalking(s, req) ==
    [s EXCEPT !.walkingTranslations =
        Append(@, [req |-> req, page |-> NoPage, cycleLeft |-> latency])]

\* Mutant: the in-flight limit is tested with > instead of >=.
parseFromTopOffByOne(s) ==
    IF Len(s.walkingTranslations) > maxRequestsInFlight THEN s
    ELSE IF s.gmmuTopPort = << >> THEN s
    ELSE LET req == Head(s.gmmuTopPort)
             s1  == [s EXCEPT !.gmmuTopPort = Tail(@),
                              !.retrieved = Append(@, req),
                              !.madeProgress = TRUE]
             found == \/ encodeVAddrPID(req.VAddr, req.PID) \in s.cuckooFilter
                      \/ s.falsePositive
             pt == PageTableFind(s.pageTable, req.PID, req.VAddr)
         IN  IF found /\ pt.found /\ pt.page.DeviceID = deviceID /\ CanSend(s1)
             THEN TopSenderSend(s1, [Src |-> "topPort", Dst |-> req.Src,
                                     RspTo |-> req.ID, Page |-> pt.page])
             ELSE startWalking(s1, req)

\* Mutant: a request that finds the top sender full on the fast path is
\* dropped instead of walked.
parseFromTopDropsWhenFull(s) ==
    IF Len(s.walkingTranslations) >= maxRequestsInFlight THEN s
    ELSE IF s.gmmuTopPort = << >> THEN s
    ELSE LET req == Head(s.gmmuTopPort)
             s1  == [s EXCEPT !.gmmuTopPort = Tail(@),
                              !.retrieved = Append(@, req),
                              !.madeProgress = TRUE]
             found == \/ encodeVAddrPID(req.VAddr, req.PID) \in s.cuckooFilter
                      \/ s.falsePositive
             pt == PageTableFind(s.pageTable, req.PID, req.VAddr)
         IN  IF found /\ pt.found /\ pt.page.DeviceID = deviceID
             THEN IF CanSend(s1)
                  THEN TopSenderSend(s1, [Src |-> "topPort", Dst |-> req.Src,
                                          RspTo |-> req.ID, Page |-> pt.page])
                  ELSE s1
             ELSE startWalking(s1, req)

\* Comp.parseFromTop
parseFromTop(s) ==
    IF Len(s.walkingTranslations) >= maxRequestsInFlight THEN s
    ELSE IF s.gmmuTopPort = << >> THEN s
    ELSE LET req == Head(s.gmmuTopPort)
             s1  == [s EXCEPT !.gmmuTopPort = Tail(@),
                              !.retrieved = Append(@, req),
                              !.madeProgress = TRUE]
             found == \/ encodeVAddrPID(req.VAddr, req.PID) \in s.cuckooFilter
                      \/ s.falsePositive
             pt == PageTableFind(s.pageTable, req.PID, req.VAddr)
         IN  IF found /\ pt.found /\ pt.page.DeviceID = deviceID /\ CanSend(s1)
             THEN TopSenderSend(s1, [Src |-> "topPort", Dst |-> req.Src,
                                     RspTo |-> req.ID, Page |-> pt.page])
             ELSE startWalking(s1, req)

\* Comp.processRemoteMemReq.  The ID of a request the port refuses is not
\* counted: nothing ever reads it.
processRemoteMemReq(s, walkingIndex) ==
    LET walking == s.walkingTranslations[walkingIndex].req
        s1  == [s EXCEPT !.remoteMemReqs[walking.VAddr] =
                             << s.walkingTranslations[walkingIndex] >>]
        req == [ID |-> s.gmmuNextID, Src |-> "bottomPort", Dst |-> "LowModule",
                PID |-> walking.PID, VAddr |-> walking.VAddr,
                DeviceID |-> walking.DeviceID,
                forReq |-> walking.ID]   \* history: the client's request
    IN  IF s.botFree = 0 THEN [s1 EXCEPT !.refused = @ \cup {walking.ID}]
        ELSE [s1 EXCEPT !.bottomSent = Append(@, req),
                        !.botFree = @ - 1,
                        !.gmmuNextID = @ + 1,
                        !.toRemoveFromPTW = @ \cup {walkingIndex},
                        !.escalated = @ \cup {[req |-> walking.ID, msg |-> req]},
                        !.madeProgress = TRUE]

\* Comp.doPageWalkHit
doPageWalkHit(s, walkingIndex) ==
    IF ~CanSend(s) THEN s
    ELSE LET walking == s.walkingTranslations[walkingIndex]
             s1 == TopSenderSend(s, [Src |-> "topPort", Dst |-> walking.req.Src,
                                     RspTo |-> walking.req.ID, Page |-> walking.page])
         IN  [s1 EXCEPT !.toRemoveFromPTW = @ \cup {walkingIndex},
                        !.madeProgress = TRUE]

\* Comp.finalizePageWalk
finalizePageWalk(s, walkingIndex) ==
    LET req  == s.walkingTranslations[walkingIndex].req
        page == PageTableFind(s.pageTable, req.PID, req.VAddr).page
    IN  doPageWalkHit([s EXCEPT !.walkingTranslations[walkingIndex].page = page],
                      walkingIndex)

\* Comp.walkPageTable
RECURSIVE walkLoop(_, _)
walkLoop(s, i) ==
    IF i > Len(s.walkingTranslations) THEN s
    ELSE IF s.walkingTranslations[i].cycleLeft > 0
         THEN walkLoop([s EXCEPT !.walkingTranslations[i].cycleLeft = @ - 1,
                                 !.madeProgress = TRUE], i + 1)
         ELSE LET req  == s.walkingTranslations[i].req
                  page == PageTableFind(s.pageTable, req.PID, req.VAddr).page
              IN  IF page.DeviceID = deviceID
                  THEN walkLoop(finalizePageWalk(s, i), i + 1)
                  ELSE walkLoop(processRemoteMemReq(s, i), i + 1)

RECURSIVE compact(_, _, _)
compact(walking, remove, i) ==
    IF i > Len(walking) THEN << >>
    ELSE (IF i \in remove THEN << >> ELSE << walking[i] >>)
         \o compact(walking, remove, i + 1)

walkPageTable(s) ==
    LET s1 == walkLoop(s, 1)
    IN  [s1 EXCEPT !.walkingTranslations = compact(@, s1.toRemoveFromPTW, 1),
                   !.toRemoveFromPTW = {}]

\* Comp.handleTranslationRsp.  remoteMemReqs has no transaction for the
\* page's vAddr: reqTransaction.req is nil and reading its Src panics.
handleTranslationRsp(s, response) ==
    LET reqTransaction == s.remoteMemReqs[response.Page.VAddr]
        key == encodeVAddrPID(response.Page.VAddr, response.Page.PID)
        s1  == [s EXCEPT !.pageTable = PageTableUpdate(@, response.Page),
                         !.cuckooFilter = IF s.insertOK THEN @ \cup {key} ELSE {key},
                         !.madeProgress = TRUE]
    IN  IF reqTransaction = << >>
        THEN [s1 EXCEPT !.panicked = TRUE]
        ELSE [TopSenderSend(s1, [Src |-> "topPort", Dst |-> reqTransaction[1].req.Src,
                                 RspTo |-> response.ID, Page |-> response.Page])
                 EXCEPT !.remoteMemReqs[response.Page.VAddr] = << >>]

\* Comp.fetchFromBottom
fetchFromBottom(s) ==
    IF ~CanSend(s) THEN s
    ELSE IF s.gmmuBottomPort = << >> THEN s
    ELSE handleTranslationRsp([s EXCEPT !.gmmuBottomPort = Tail(@)],
                              Head(s.gmmuBottomPort))

(***************************************************************************)
(* Actions of the GMMU.                                                    *)
(***************************************************************************)
\* The outcomes of a choice the environment makes: both when the Tick can
\* come to depend on it, one when it cannot.
Outcomes(matters) == IF matters THEN BOOLEAN ELSE {TRUE}

\* The IDs of the requests of a walking list.
WalkingIDs(walking) == {walking[i].req.ID : i \in 1 .. Len(walking)}

\* The page table maps the request's key to a page of another device.
RemotePage(pt, req) ==
    LET f == PageTableFind(pt, req.PID, req.VAddr)
    IN  f.found /\ f.page.DeviceID # deviceID

\* The walk history after a Tick.  s1: the state parseFromTop started in,
\* s2: the state walkPageTable started in, s3: the state it ended in.
\*   walking: for each transaction in the walking list, its request's ID, the
\*     Ticks since the one that parsed it (up to WalkAgeCap) and whether its
\*     page was another device's when it was parsed;
\*   resolved: for each transaction this Tick found with cycleLeft = 0 for the
\*     first time: whether its page was another device's when parsed and is
\*     now, whether the bottom port refused its TranslationReq, the
\*     TranslationReqs sent for it, and whether walkPageTable left it out of
\*     the walking list and in remoteMemReqs[VAddr];
\*   escalated: the TranslationReqs the bottom port accepted in this Tick.
WalkLogAfter(s1, s2, s3) ==
    LET old(id) == {r \in walkLog.walking : r.req = id}
        ageOf(id) == IF old(id) = {} THEN 0
                     ELSE MinOf({(CHOOSE r \in old(id) : TRUE).age + 1, WalkAgeCap})
        wasRemote(req) == IF old(req.ID) = {} THEN RemotePage(s1.pageTable, req)
                          ELSE (CHOOSE r \in old(req.ID) : TRUE).parseRemote
        reqsOf(walking) == {walking[i].req : i \in 1 .. Len(walking)}
        first == {s2.walkingTranslations[i].req : i \in
                     {j \in 1 .. Len(s2.walkingTranslations) :
                         /\ s2.walkingTranslations[j].cycleLeft = 0
                         /\ ageOf(s2.walkingTranslations[j].req.ID) = latency}}
    IN  [walking |-> {[req |-> q.ID, age |-> ageOf(q.ID), parseRemote |-> wasRemote(q)]
                         : q \in reqsOf(s3.walkingTranslations)},
         resolved |-> {[req |-> q,
                        parseRemote |-> wasRemote(q),
                        remote |-> RemotePage(s2.pageTable, q),
                        refused |-> q.ID \in s3.refused,
                        sent |-> {e.msg : e \in {x \in s3.escalated : x.req = q.ID}},
                        left |-> q.ID \notin WalkingIDs(s3.walkingTranslations),
                        recorded |-> /\ s3.remoteMemReqs[q.VAddr] # << >>
                                     /\ s3.remoteMemReqs[q.VAddr][1].req.ID = q.ID]
                         : q \in first},
         escalated |-> {[req |-> e.req, msg |-> e.msg, age |-> ageOf(e.req)]
                         : e \in s3.escalated}]

\* Comp.Tick, for given outcomes of what the environment decides.
TickWith(portOK, falsePositive, botAcc, insertOK) ==
          \E s1 \in {TopSenderTick(GmmuState(portOK, falsePositive, botAcc, insertOK))} :
          \E s2 \in {parseFromTop(s1)} :
          \E s3 \in {walkPageTable(s2)} :
          \E s4 \in {fetchFromBottom(s3)} :
              /\ gmmuTopPort' = s4.gmmuTopPort
              /\ gmmuBottomPort' = s4.gmmuBottomPort
              /\ topSender' = s4.topSender
              /\ walkingTranslations' = s4.walkingTranslations
              /\ remoteMemReqs' = s4.remoteMemReqs
              /\ pageTable' = s4.pageTable
              /\ cuckooFilter' = s4.cuckooFilter
              /\ gmmuNextID' = s4.gmmuNextID
              /\ panicked' = s4.panicked
              /\ retrieved' = s4.retrieved
              /\ topSenderLog' = s4.topSenderLog
              /\ bottomSent' = s4.bottomSent
              /\ lastTick' =
                    [parsed |-> SubSeq(s2.retrieved, Len(s1.retrieved) + 1, Len(s2.retrieved)),
                     canSend |-> CanSend(s1),
                     filter |-> s1.cuckooFilter,
                     pageTable |-> s1.pageTable,
                     walkingBefore |-> s1.walkingTranslations,
                     walkingAfter |-> s2.walkingTranslations,
                     sent |-> SubSeq(s2.topSenderLog, Len(s1.topSenderLog) + 1,
                                     Len(s2.topSenderLog)),
                     portWaiting |-> Len(s1.gmmuTopPort),
                     handled |-> IF Len(s4.gmmuBottomPort) < Len(s3.gmmuBottomPort)
                                 THEN << Head(s3.gmmuBottomPort) >> ELSE << >>]
              /\ walkLog' = WalkLogAfter(s1, s2, s3)

\* Comp.Tick
Tick ==
    /\ ~panicked
    /\ \E portOK \in Outcomes(topSender # << >>),
          falsePositive \in Outcomes(gmmuTopPort # << >>),
          botAcc \in (IF walkingTranslations = << >> /\ gmmuTopPort = << >>
                      THEN {BottomPortCap} ELSE 0 .. BottomPortCap),
          insertOK \in Outcomes(gmmuBottomPort # << >>) :
          TickWith(portOK, falsePositive, botAcc, insertOK)
    /\ UNCHANGED <<deviceID, clientReqs, answered, twin, ringVars>>

\* A client's TranslationReq arrives at the top port.
ClientSend(pid, vAddr) ==
    /\ ~panicked
    /\ clientReqs < MaxClientReqs
    /\ gmmuTopPort' = Append(gmmuTopPort,
           [ID |-> 1000 + clientReqs, Src |-> 2000 + clientReqs,
            PID |-> pid, VAddr |-> vAddr, DeviceID |-> 1])
    /\ clientReqs' = clientReqs + 1
    /\ UNCHANGED <<deviceID, gmmuBottomPort, topSender, walkingTranslations,
                   remoteMemReqs, pageTable, cuckooFilter, gmmuNextID, panicked,
                   retrieved, topSenderLog, bottomSent, answered, lastTick, walkLog,
                   twin, ringVars>>

\* The low module answers a TranslationReq it got from the bottom port with
\* the page of its key, owned by the GMMU's device or by another one.
LowModuleRespond(n, dev) ==
    /\ ~panicked
    /\ n \in 1 .. Len(bottomSent)
    /\ n \notin answered
    /\ gmmuBottomPort' = Append(gmmuBottomPort,
           [ID |-> gmmuNextID, RspTo |-> bottomSent[n].ID,
            forReq |-> bottomSent[n].forReq,   \* history: the client's request
            Page |-> [PID |-> bottomSent[n].PID, VAddr |-> bottomSent[n].VAddr,
                      PAddr |-> 500 + bottomSent[n].PID, DeviceID |-> dev,
                      Valid |-> TRUE]])
    /\ gmmuNextID' = gmmuNextID + 1
    /\ answered' = answered \cup {n}
    /\ UNCHANGED <<deviceID, gmmuTopPort, topSender, walkingTranslations,
                   remoteMemReqs, pageTable, cuckooFilter, panicked, clientReqs,
                   retrieved, topSenderLog, bottomSent, lastTick, walkLog, twin,
                   ringVars>>

\* The second GMMU as Builder.Build leaves it, over the same page table.
TwinStart ==
    [gmmuTopPort |-> << >>, gmmuBottomPort |-> << >>, topSender |-> << >>,
     walkingTranslations |-> << >>, remoteMemReqs |-> remoteMemReqs,
     pageTable |-> pageTable, cuckooFilter |-> {}, gmmuNextID |-> 1,
     panicked |-> FALSE, retrieved |-> << >>, topSenderLog |-> << >>,
     bottomSent |-> << >>, answered |-> {}]

\* A GMMU as Builder.Build leaves it, over a page table that maps each key
\* to nothing, to a page of the GMMU's device or to a page of another device.
GmmuStart ==
    /\ deviceID \in {0, 1}
    /\ \E owner \in [GmmuKeys -> {"none", "local", "remote"}] :
          pageTable = [k \in GmmuKeys |->
              IF owner[k] = "none" THEN << >>
              ELSE << [PID |-> k[1], VAddr |-> k[2], PAddr |-> 300 + k[1],
                       DeviceID |-> IF owner[k] = "local" THEN deviceID ELSE RemoteDevice,
                       Valid |-> TRUE] >>]
    /\ gmmuTopPort = << >>
    /\ gmmuBottomPort = << >>
    /\ topSender = << >>
    /\ walkingTranslations = << >>
    /\ remoteMemReqs = [v \in GmmuVAddrs |-> << >>]
    /\ cuckooFilter = {}
    /\ gmmuNextID = 1
    /\ panicked = FALSE
    /\ clientReqs = 0
    /\ retrieved = << >>
    /\ topSenderLog = << >>
    /\ bottomSent = << >>
    /\ answered = {}
    /\ lastTick = [parsed |-> << >>, canSend |-> TRUE, filter |-> {},
                   pageTable |-> pageTable, walkingBefore |-> << >>,
                   walkingAfter |-> << >>, sent |-> << >>, portWaiting |-> 0,
                   handled |-> << >>]
    /\ walkLog = [walking |-> {}, resolved |-> {}, escalated |-> {}]
    /\ twin = TwinStart

GmmuNext ==
    \/ \E pid \in GmmuPIDs, vAddr \in GmmuVAddrs : ClientSend(pid, vAddr)
    \/ Tick
    \/ \E n \in 1 .. MaxClientReqs, dev \in {deviceID, RemoteDevice} : LowModuleRespond(n, dev)

(***************************************************************************)
(* Initial states of the ring: a fresh ring (NewRingNoC) in which at most  *)
(* one TLB was preloaded with a valid page, in way 0 of its set (as        *)
(* TestRingNoCFullProbeFlow does) or in its prefetch buffer.               *)
(***************************************************************************)
Preloads ==
    {[where |-> "none", tlb |-> 0, pid |-> 0]}
    \cup [where : {"set"}, tlb : Holders, pid : {0}]
    \cup [where : {"set"}, tlb : {0}, pid : PIDs]
    \cup [where : {"prefetch"}, tlb : {0}, pid : {0}]

RingStart ==
    \E pre \in Preloads :
        /\ tlbSet = [t \in TLBIDs |->
                        IF pre.where = "set" /\ pre.tlb = t
                        THEN SetUpdate(EmptySet, 1, HeldPage(t, pre.pid))
                        ELSE EmptySet]
        /\ prefetchBuffer = [t \in TLBIDs |->
                        IF pre.where = "prefetch" /\ pre.tlb = t
                        THEN << HeldPage(t, pre.pid) >>
                        ELSE << >>]
        /\ mshr = [t \in TLBIDs |-> << >>]
        /\ probeQueue = [t \in TLBIDs |-> << >>]
        /\ conn = << >>
        /\ topSent = [t \in TLBIDs |-> << >>]
        /\ botSent = [t \in TLBIDs |-> << >>]
        /\ nextID = 1
        /\ reqsAdded = 0
        /\ initLog = << >>
        /\ termResp = [i \in 0 .. MaxID |-> 0]
        /\ termExpiry = [i \in 0 .. MaxID |-> 0]
        /\ drainLog = {}
        /\ botRefused = {}
        /\ lastCycle = [madeProgress |-> FALSE, dequeued |-> {}, delivered |-> 0]
        /\ deliverLog = [n |-> 0, msg |-> [type |-> "none"], ret |-> FALSE,
                         noEntry |-> FALSE]

\* The GMMU before it is ticked, for the specifications of the ring.
GmmuIdle ==
    /\ GmmuStart
    /\ deviceID = 1
    /\ \A k \in GmmuKeys : pageTable[k] = << >>

\* The ring before it is cycled, for the specification of the GMMU.
RingIdle ==
    /\ RingStart
    /\ \A t \in TLBIDs : tlbSet[t] = EmptySet /\ prefetchBuffer[t] = << >>

RingInit == RingStart /\ GmmuIdle

RingNext ==
    \/ \E t \in Originators, pid \in PIDs, vAddr \in VAddrs : MSHRAdd(t, pid, vAddr)
    \/ \E t \in Originators, vAddr \in VAddrs : InitiateProbing(t, vAddr)
    \/ Cycle

RingSpec == RingInit /\ [][RingNext]_vars

\* The ring driven from outside, without InitiateProbing: what
\* TestRingNoCDeliverMessage does, followed by Cycles.
RingDeliverNext ==
    \/ \E t \in Originators, pid \in PIDs, vAddr \in VAddrs : MSHRAdd(t, pid, vAddr)
    \/ \E msg \in ExternalMsgs : ExternalDeliver(msg)
    \/ Cycle

RingDeliverSpec == RingInit /\ [][RingDeliverNext]_vars

\* A fresh ring whose TLBs miss in bursts.
RingBurstInit == RingIdle /\ GmmuIdle

\* The TLB whose clients miss in bursts.
BurstOriginator == CHOOSE t \in Originators : \A u \in Originators : t <= u

RingBurstNext ==
    \/ InitiateProbingBurst(BurstOriginator, HeldVAddr)
    \/ Cycle

RingBurstSpec == RingBurstInit /\ [][RingBurstNext]_vars

GmmuInit == GmmuStart /\ RingIdle

GmmuSpec == GmmuInit /\ [][GmmuNext]_vars

\* The engine keeps ticking the GMMU, the low module answers every
\* TranslationReq it got, the top port takes the top sender's head again and
\* again, and the bottom port accepts a Send again and again.
GmmuFairness ==
    /\ WF_vars(Tick)
    /\ WF_vars(\E n \in 1 .. MaxClientReqs, dev \in {deviceID, RemoteDevice} :
                  LowModuleRespond(n, dev))
    /\ SF_vars(Tick /\ Len(topSender') - Len(topSender)
                           < Len(topSenderLog') - Len(topSenderLog))
    /\ SF_vars(Tick /\ walkLog'.escalated # {})

\* A GMMU of device 1 whose page table maps every key to a page of another
\* device.
GmmuLiveInit ==
    /\ GmmuInit
    /\ deviceID = 1
    /\ \A k \in GmmuKeys : RemotePage(pageTable, [PID |-> k[1], VAddr |-> k[2]])

GmmuLiveSpec == GmmuLiveInit /\ [][GmmuNext]_vars /\ GmmuFairness

(***************************************************************************)
(* Two GMMUs side by side: the same requests arrive at both in the same    *)
(* order, both are ticked together, their ports accept every Send and the  *)
(* low module answers every TranslationReq before the next Tick with the   *)
(* page of its key.  Only the answers of the two Cuckoo filters (a false   *)
(* positive, a failed Insert followed by Reset) are chosen independently.  *)
(***************************************************************************)
PairKeys == {<<0, 1>>, <<1, 1>>, <<0, 2>>}
PairVAddrs == {1, 2}

\* The record the steps of the second GMMU's Tick work on.
TwinState(falsePositive, insertOK) ==
    [gmmuTopPort |-> twin.gmmuTopPort, gmmuBottomPort |-> twin.gmmuBottomPort,
     topSender |-> twin.topSender,
     walkingTranslations |-> twin.walkingTranslations,
     remoteMemReqs |-> twin.remoteMemReqs, pageTable |-> twin.pageTable,
     cuckooFilter |-> twin.cuckooFilter, gmmuNextID |-> twin.gmmuNextID,
     panicked |-> twin.panicked, retrieved |-> twin.retrieved,
     topSenderLog |-> twin.topSenderLog, bottomSent |-> twin.bottomSent,
     toRemoveFromPTW |-> {}, madeProgress |-> FALSE,
     refused |-> {}, escalated |-> {},
     portOK |-> TRUE, falsePositive |-> falsePositive,
     botFree |-> BottomPortCap, insertOK |-> insertOK]

\* Comp.Tick of the second GMMU.
TwinTick(falsePositive, insertOK) ==
    \E t1 \in {TopSenderTick(TwinState(falsePositive, insertOK))} :
    \E t2 \in {parseFromTop(t1)} :
    \E t3 \in {walkPageTable(t2)} :
    \E t4 \in {fetchFromBottom(t3)} :
        twin' = [twin EXCEPT !.gmmuTopPort = t4.gmmuTopPort,
                             !.gmmuBottomPort = t4.gmmuBottomPort,
                             !.topSender = t4.topSender,
                             !.walkingTranslations = t4.walkingTranslations,
                             !.remoteMemReqs = t4.remoteMemReqs,
                             !.pageTable = t4.pageTable,
                             !.cuckooFilter = t4.cuckooFilter,
                             !.gmmuNextID = t4.gmmuNextID,
                             !.panicked = t4.panicked,
                             !.retrieved = t4.retrieved,
                             !.topSenderLog = t4.topSenderLog,
                             !.bottomSent = t4.bottomSent]

\* The TranslationReqs of a bottom port the low module has not answered.
Unanswered(sent, done) == {n \in 1 .. Len(sent) : n \notin done}

\* The low module's answer to a TranslationReq: the page of its key, owned
\* by another device.
LowAnswer(req, id) ==
    [ID |-> id, RspTo |-> req.ID, forReq |-> req.forReq,
     Page |-> [PID |-> req.PID, VAddr |-> req.VAddr, PAddr |-> 500 + req.PID,
               DeviceID |-> RemoteDevice, Valid |-> TRUE]]

\* The same TranslationReq arrives at the top port of both GMMUs.
PairClientSend(pid, vAddr) ==
    /\ clientReqs < MaxClientReqs
    /\ \E req \in {[ID |-> 1000 + clientReqs, Src |-> 2000 + clientReqs,
                     PID |-> pid, VAddr |-> vAddr, DeviceID |-> 1]} :
          /\ gmmuTopPort' = Append(gmmuTopPort, req)
          /\ twin' = [twin EXCEPT !.gmmuTopPort = Append(@, req)]
    /\ clientReqs' = clientReqs + 1
    /\ UNCHANGED <<deviceID, gmmuBottomPort, topSender, walkingTranslations,
                   remoteMemReqs, pageTable, cuckooFilter, gmmuNextID, panicked,
                   retrieved, topSenderLog, bottomSent, answered, lastTick, walkLog,
                   ringVars>>

\* Both GMMUs are ticked, once the low module has answered what it got.
PairTick ==
    /\ ~panicked \/ ~twin.panicked
    /\ Unanswered(bottomSent, answered) = {}
    /\ Unanswered(twin.bottomSent, twin.answered) = {}
    /\ IF panicked
       THEN UNCHANGED <<gmmuTopPort, gmmuBottomPort, topSender, walkingTranslations,
                        remoteMemReqs, pageTable, cuckooFilter, gmmuNextID,
                        panicked, retrieved, topSenderLog, bottomSent, lastTick,
                        walkLog>>
       ELSE \E falsePositive \in Outcomes(gmmuTopPort # << >>),
               insertOK \in Outcomes(gmmuBottomPort # << >>) :
               TickWith(TRUE, falsePositive, BottomPortCap, insertOK)
    /\ IF twin.panicked
       THEN UNCHANGED twin
       ELSE \E falsePositive \in Outcomes(twin.gmmuTopPort # << >>),
               insertOK \in Outcomes(twin.gmmuBottomPort # << >>) :
               TwinTick(falsePositive, insertOK)
    /\ UNCHANGED <<deviceID, clientReqs, answered, ringVars>>

\* The low module answers the oldest TranslationReq it has not answered, of
\* each GMMU.
PairRespond ==
    /\ Unanswered(bottomSent, answered) \cup Unanswered(twin.bottomSent, twin.answered) # {}
    /\ IF Unanswered(bottomSent, answered) = {}
       THEN UNCHANGED <<gmmuBottomPort, gmmuNextID, answered>>
       ELSE \E n \in {MinOf(Unanswered(bottomSent, answered))} :
               /\ gmmuBottomPort' = Append(gmmuBottomPort,
                                           LowAnswer(bottomSent[n], gmmuNextID))
               /\ gmmuNextID' = gmmuNextID + 1
               /\ answered' = answered \cup {n}
    /\ IF Unanswered(twin.bottomSent, twin.answered) = {}
       THEN UNCHANGED twin
       ELSE \E n \in {MinOf(Unanswered(twin.bottomSent, twin.answered))} :
               twin' = [twin EXCEPT
                           !.gmmuBottomPort =
                               Append(@, LowAnswer(twin.bottomSent[n], twin.gmmuNextID)),
                           !.gmmuNextID = @ + 1,
                           !.answered = @ \cup {n}]
    /\ UNCHANGED <<deviceID, gmmuTopPort, topSender, walkingTranslations,
                   remoteMemReqs, pageTable, cuckooFilter, panicked, clientReqs,
                   retrieved, topSenderLog, bottomSent, lastTick, walkLog,
                   ringVars>>

\* Two GMMUs of device 1 as Builder.Build leaves them, over a page table that
\* maps (0, 2) to a page of device 1 and (0, 1) and (1, 1) to pages of another
\* device.
GmmuPairInit ==
    /\ deviceID = 1
    /\ pageTable = [k \in PairKeys |->
           << [PID |-> k[1], VAddr |-> k[2], PAddr |-> 300 + k[1],
               DeviceID |-> IF k[2] = 2 THEN deviceID ELSE RemoteDevice,
               Valid |-> TRUE] >>]
    /\ gmmuTopPort = << >>
    /\ gmmuBottomPort = << >>
    /\ topSender = << >>
    /\ walkingTranslations = << >>
    /\ remoteMemReqs = [v \in PairVAddrs |-> << >>]
    /\ cuckooFilter = {}
    /\ gmmuNextID = 1
    /\ panicked = FALSE
    /\ clientReqs = 0
    /\ retrieved = << >>
    /\ topSenderLog = << >>
    /\ bottomSent = << >>
    /\ answered = {}
    /\ lastTick = [parsed |-> << >>, canSend |-> TRUE, filter |-> {},
                   pageTable |-> pageTable, walkingBefore |-> << >>,
                   walkingAfter |-> << >>, sent |-> << >>, portWaiting |-> 0,
                   handled |-> << >>]
    /\ walkLog = [walking |-> {}, resolved |-> {}, escalated |-> {}]
    /\ twin = TwinStart
    /\ RingIdle

GmmuPairNext ==
    \/ \E k \in PairKeys : PairClientSend(k[1], k[2])
    \/ PairTick
    \/ PairRespond

GmmuPairSpec == GmmuPairInit /\ [][GmmuPairNext]_vars

(***************************************************************************)
(* Properties of the ring.                                                 *)
(***************************************************************************)
Inits == {initLog[k] : k \in 1 .. Len(initLog)}

\* TLB h holds a valid page for (pid, vAddr) in its set.
HoldsInSet(h, pid, vAddr) ==
    LET hit == SetLookup(tlbSet[h], pid, vAddr)
    IN  hit # << >> /\ hit[1].Valid

HoldsInBuffer(h, pid, vAddr) ==
    \E i \in 1 .. Len(prefetchBuffer[h]) :
        /\ prefetchBuffer[h][i].PID = pid
        /\ prefetchBuffer[h][i].VAddr = vAddr
        /\ prefetchBuffer[h][i].Valid

\* No TLB on the ring holds a page for (pid, vAddr).
NoHolder(pid, vAddr) ==
    \A h \in TLBIDs : ~HoldsInSet(h, pid, vAddr) /\ ~HoldsInBuffer(h, pid, vAddr)

\* Probe id is on its way: in a ProbeQueue or in the connection, as a request
\* or as the response that answers it.
InFlightCount(id) ==
    LET inQueue(t) == Cardinality({i \in 1 .. Len(probeQueue[t]) : probeQueue[t][i].ID = id})
        RECURSIVE Sum(_)
        Sum(t) == IF t < 0 THEN 0 ELSE inQueue(t) + Sum(t - 1)
    IN  Sum(NumTLBs - 1)
        + Cardinality({i \in 1 .. Len(conn) :
                          \/ conn[i].type = "ProbeRequest" /\ conn[i].ID = id
                          \/ conn[i].type = "ProbeResponse" /\ conn[i].probe = id})

\* C1 (as claimed): ring hit.  TLB t had an MSHR entry for (0, vAddr) when it
\* called InitiateProbing(vAddr), its clockwise neighbour holds a valid page
\* for the key in its set, and TestCyclesHit Cycles have run: then t's set
\* holds a valid entry for the key with the holder's PAddr and t's MSHR has no
\* entry for the key.
C1_RingHit ==
    \A i \in Inits :
        LET h == (i.tlb + 1) % NumTLBs
        IN  (/\ i.hadEntry
             /\ HoldsInSet(h, 0, i.vAddr)
             /\ i.age >= TestCyclesHit)
            => /\ HoldsInSet(i.tlb, 0, i.vAddr)
               /\ SetLookup(tlbSet[i.tlb], 0, i.vAddr)[1].PAddr
                      = SetLookup(tlbSet[h], 0, i.vAddr)[1].PAddr
               /\ MSHRQuery(mshr[i.tlb], 0, i.vAddr) = << >>

C3_DeliverMessageDispatch ==
    [][deliverLog'.n # deliverLog.n =>
          IF deliverLog'.msg.type \in {"ProbeRequest", "ProbeResponse"}
          THEN deliverLog'.ret = TRUE
          ELSE /\ deliverLog'.ret = FALSE
               /\ UNCHANGED <<tlbSet, prefetchBuffer, mshr, probeQueue, conn,
                              topSent, botSent>>]_vars

\* A ProbeResponse with Page = nil was delivered to a TLB with an empty MSHR
\* and accepted.
C3_Witness ==
    /\ deliverLog.n > 0
    /\ deliverLog.msg.type = "ProbeResponse"
    /\ deliverLog.msg.Page = << >>
    /\ deliverLog.noEntry
    /\ deliverLog.ret = TRUE

\* C5 (as claimed): MSHR coalescing.  Once a valid ProbeResponse has drained
\* an MSHR entry, each request that was queued on the entry has been sent
\* exactly one TranslationRsp carrying the page on the top port.
C5_Coalescing ==
    \A d \in drainLog : \A q \in d.reqs :
        Cardinality({n \in 1 .. Len(topSent[d.tlb]) :
                        /\ topSent[d.tlb][n].RspTo = q
                        /\ topSent[d.tlb][n].Page = d.page}) = 1

\* C6 (as claimed): a TranslationReq for vAddr is on TLB t's bottom port only
\* if both probes of an InitiateProbing(vAddr) call of t have expired.
C6_BottomOnlyAfterBothExpired ==
    \A t \in TLBIDs : \A n \in 1 .. Len(botSent[t]) :
        \E i \in Inits :
            /\ i.tlb = t
            /\ i.vAddr = botSent[t][n].VAddr
            /\ termExpiry[i.cw] >= 1
            /\ termExpiry[i.ccw] >= 1

\* C7 (as claimed): NotifyMiss is idempotent.  A step that starts with
\* reqToBottom set on an MSHR entry sends no further TranslationReq for the
\* entry's address on the bottom port.
C7_NotifyMissIdempotent ==
    [][\A t \in TLBIDs : \A e \in 1 .. Len(mshr[t]) :
          mshr[t][e].reqToBottom # << >> =>
              \A n \in (Len(botSent[t]) + 1) .. Len(botSent'[t]) :
                  botSent'[t][n].VAddr # mshr[t][e].VAddr]_vars

\* What is left to do for the probes on their way: a forward for every unit
\* of TTL and the expiry of a queued request, the delivery of a response.
ProbeWork ==
    LET RECURSIVE QueueWork(_, _)
        QueueWork(q, i) == IF i > Len(q) THEN 0 ELSE q[i].TTL + 1 + QueueWork(q, i + 1)
        RECURSIVE Sum(_)
        Sum(t) == IF t < 0 THEN 0 ELSE QueueWork(probeQueue[t], 1) + Sum(t - 1)
    IN  Sum(NumTLBs - 1) + Len(conn)

\* C8: each probe of an InitiateProbing call is, at any time, either on its way
\* exactly once or terminated exactly once (a ProbeResponse delivered to the
\* originator, or a TTL expiry); its TTL stays within 0 .. its initial TTL; and
\* every Cycle that starts with a probe on its way does some of the work that
\* is left, so no probe circulates forever.
C8_TwoTerminations ==
    /\ [](\A i \in Inits :
            /\ \A id \in {i.cw, i.ccw} :
                   InFlightCount(id) + termResp[id] + termExpiry[id] = 1
            /\ \A t \in TLBIDs : \A n \in 1 .. Len(probeQueue[t]) :
                   LET p == probeQueue[t][n]
                   IN  /\ p.ID = i.cw => p.TTL \in 0 .. ClockwiseTTL
                       /\ p.ID = i.ccw => p.TTL \in 0 .. CounterclockwiseTTL)
    /\ [][(ProbeWork > 0 /\ UNCHANGED <<reqsAdded, nextID, deliverLog>>)
             => ProbeWork' < ProbeWork]_vars

\* Both probes of an InitiateProbing call have terminated by expiry and
\* nothing is on its way.
C8_Witness ==
    \E i \in Inits :
        /\ termExpiry[i.cw] = 1
        /\ termExpiry[i.ccw] = 1
        /\ ProbeWork = 0

(***************************************************************************)
(* Properties of the GMMU.                                                 *)
(***************************************************************************)
\* C4 (as claimed): every TranslationRsp enqueued for a client carries the ID
\* of a TranslationReq that this client sent and the GMMU retrieved.
C4_RspToOriginalRequest ==
    \A n \in 1 .. Len(topSenderLog) :
        \E m \in 1 .. Len(retrieved) :
            /\ retrieved[m].ID = topSenderLog[n].RspTo
            /\ retrieved[m].Src = topSenderLog[n].Dst

\* C9: the walking list never holds more than maxRequestsInFlight
\* transactions, and a parseFromTop that finds it at the limit retrieves
\* nothing from the top port.
C9_WalkingBound ==
    /\ Len(walkingTranslations) <= maxRequestsInFlight
    /\ Len(lastTick.walkingBefore) >= maxRequestsInFlight => lastTick.parsed = << >>

\* parseFromTop found the list at the limit and left a waiting request in
\* the top port.
C9_Witness ==
    /\ Len(lastTick.walkingBefore) = maxRequestsInFlight
    /\ lastTick.portWaiting > 0
    /\ lastTick.parsed = << >>

\* C10: GMMU fast path.  The last Tick parsed a TranslationReq whose key the
\* filter held and whose page-table page belongs to the GMMU's device.  If the
\* top sender could accept a message, parseFromTop enqueued exactly one
\* TranslationRsp, for this request and with the page-table page, which is in
\* the top sender's buffer after the Tick, and added nothing to the walking
\* list; if it could not, parseFromTop sent nothing and appended a transaction
\* for the request with cycleLeft = latency.
C10_FastPath ==
    lastTick.parsed # << >> =>
        LET req == lastTick.parsed[1]
            pt  == PageTableFind(lastTick.pageTable, req.PID, req.VAddr)
            rsp == [Src |-> "topPort", Dst |-> req.Src, RspTo |-> req.ID,
                    Page |-> pt.page]
        IN  (/\ encodeVAddrPID(req.VAddr, req.PID) \in lastTick.filter
             /\ pt.found
             /\ pt.page.DeviceID = deviceID)
            => IF lastTick.canSend
               THEN /\ lastTick.sent = << rsp >>
                    /\ \E n \in 1 .. Len(topSender) : topSender[n] = rsp
                    /\ lastTick.walkingAfter = lastTick.walkingBefore
               ELSE /\ lastTick.sent = << >>
                    /\ lastTick.walkingAfter =
                          Append(lastTick.walkingBefore,
                                 [req |-> req, page |-> NoPage, cycleLeft |-> latency])

\* The fast path was taken for a key the filter held.
C10_WitnessFast ==
    /\ lastTick.parsed # << >>
    /\ encodeVAddrPID(lastTick.parsed[1].VAddr, lastTick.parsed[1].PID) \in lastTick.filter
    /\ PageTableFind(lastTick.pageTable, lastTick.parsed[1].PID,
                     lastTick.parsed[1].VAddr).page.DeviceID = deviceID
    /\ lastTick.canSend
    /\ Len(lastTick.sent) = 1

\* The filter held the key and the page is local, but the top sender was full.
C10_Witness ==
    /\ lastTick.parsed # << >>
    /\ encodeVAddrPID(lastTick.parsed[1].VAddr, lastTick.parsed[1].PID) \in lastTick.filter
    /\ PageTableFind(lastTick.pageTable, lastTick.parsed[1].PID,
                     lastTick.parsed[1].VAddr).found
    /\ PageTableFind(lastTick.pageTable, lastTick.parsed[1].PID,
                     lastTick.parsed[1].VAddr).page.DeviceID = deviceID
    /\ ~lastTick.canSend

\* C11 (as claimed): GMMU remote escalation timing.  No TranslationReq goes
\* out on the bottom port before its request's walk has lasted latency Ticks.
\* A TranslationReq whose page-table page was another device's in the Tick
\* that parsed it and whose Send the bottom port does not refuse is sent to
\* LowModule, with its PID and VAddr, in the Tick latency after that one, and
\* walkPageTable takes its transaction out of the walking list and leaves it
\* in remoteMemReqs[VAddr].
C11_RemoteEscalationAsParsed ==
    /\ \A e \in walkLog.escalated : e.age >= latency
    /\ \A r \in walkLog.resolved :
          (r.parseRemote /\ ~r.refused)
          => /\ \E m \in r.sent : /\ m.PID = r.req.PID
                                  /\ m.VAddr = r.req.VAddr
                                  /\ m.Dst = "LowModule"
             /\ r.left /\ r.recorded

\* C11 (amended): the same, for a TranslationReq whose page-table page is
\* another device's in the Tick that ends its walk (latency Ticks after the
\* one that parsed it): a bottom response handled during the walk can have
\* replaced the page by one of the GMMU's own device.
C11_RemoteEscalationTiming ==
    /\ \A e \in walkLog.escalated : e.age >= latency
    /\ \A r \in walkLog.resolved :
          (r.remote /\ ~r.refused)
          => /\ \E m \in r.sent : /\ m.PID = r.req.PID
                                  /\ m.VAddr = r.req.VAddr
                                  /\ m.Dst = "LowModule"
             /\ r.left /\ r.recorded

\* A request whose page was remote both when parsed and when its walk ended
\* was sent on the bottom port, latency Ticks after it was parsed.
C11_Witness ==
    \E r \in walkLog.resolved :
        /\ r.parseRemote /\ r.remote /\ ~r.refused
        /\ r.sent # {}
        /\ \E e \in walkLog.escalated : e.req = r.req.ID /\ e.age = latency

\* The TranslationReq a client sent with this ID.
ClientRequest(id) ==
    retrieved[CHOOSE m \in 1 .. Len(retrieved) : retrieved[m].ID = id]

\* C12 (as claimed): the last Tick handled a TranslationRsp from the bottom
\* port.  After it the top sender holds a TranslationRsp with the returned
\* page for the client whose request was escalated, the page table maps the
\* key to the returned page, remoteMemReqs has no entry for the VAddr, and the
\* filter holds the key, whether its first Insert succeeded or not.
C12_HandleTranslationRsp ==
    lastTick.handled # << >> =>
        LET response == lastTick.handled[1]
            page == response.Page
        IN  /\ ~panicked
            /\ \E n \in 1 .. Len(topSender) :
                   /\ topSender[n].Page = page
                   /\ topSender[n].Dst = ClientRequest(response.forReq).Src
            /\ PageTableFind(pageTable, page.PID, page.VAddr)
                   = [page |-> page, found |-> TRUE]
            /\ remoteMemReqs[page.VAddr] = << >>
            /\ encodeVAddrPID(page.VAddr, page.PID) \in cuckooFilter

\* What handleTranslationRsp does to the page table and the filter, whoever
\* the response goes to.
C12_TableAndFilter ==
    lastTick.handled # << >> =>
        LET page == lastTick.handled[1].Page
        IN  /\ PageTableFind(pageTable, page.PID, page.VAddr)
                   = [page |-> page, found |-> TRUE]
            /\ remoteMemReqs[page.VAddr] = << >>
            /\ encodeVAddrPID(page.VAddr, page.PID) \in cuckooFilter

\* C13 (as claimed): GMMU liveness.  Every TranslationReq parseFromTop
\* retrieved is followed by a TranslationRsp for its Src enqueued on the top
\* sender.
C13_EveryRequestAnswered ==
    \A k \in 1 .. MaxClientReqs :
        (Len(retrieved) >= k)
        ~> (/\ Len(retrieved) >= k
            /\ \E n \in 1 .. Len(topSenderLog) : topSenderLog[n].Dst = retrieved[k].Src)

\* C14: the two GMMUs get the same requests and the same answers from the low
\* module and differ only in what their Cuckoo filters report; a client that
\* gets a TranslationRsp from both gets the same page from both.
C14_SamePage ==
    \A n \in 1 .. Len(topSenderLog), m \in 1 .. Len(twin.topSenderLog) :
        topSenderLog[n].Dst = twin.topSenderLog[m].Dst
            => topSenderLog[n].Page = twin.topSenderLog[m].Page

(***************************************************************************)
(* Further properties of the ring.                                         *)
(***************************************************************************)
\* C15 (as claimed): probe exhaustion escalates for every PID.  In the step
\* in which the second of the two probes of an InitiateProbing(vAddr) call of
\* TLB t expires, with an entry for (pid, vAddr) in t's MSHR and a bottom port
\* that refuses no Send, a TranslationReq for (pid, vAddr) has been sent on
\* t's bottom port, whatever pid is.
C15_EscalatesEveryPID ==
    [][\A i \in Inits : \A pid \in PIDs :
          (/\ termExpiry'[i.cw] >= 1 /\ termExpiry'[i.ccw] >= 1
           /\ termExpiry[i.cw] = 0 \/ termExpiry[i.ccw] = 0
           /\ MSHRQuery(mshr[i.tlb], pid, i.vAddr) # << >>
           /\ i.tlb \notin botRefused')
          => \E n \in 1 .. Len(botSent'[i.tlb]) :
                 /\ botSent'[i.tlb][n].PID = pid
                 /\ botSent'[i.tlb][n].VAddr = i.vAddr]_vars

\* C16 (as claimed): a Cycle that finds a ProbeRequest with TTL > 0 at the head
\* of TLB i's ProbeQueue hands it to the connection, and ReceiveProbeRequest
\* then processes it at i's next-hop neighbour in the probe's direction: after
\* the Cycle the probe is on that neighbour's ProbeQueue or that neighbour has
\* answered it with a ProbeResponse.
C16_NextHopReceives ==
    [][\A i \in TLBIDs :
          (/\ UNCHANGED <<reqsAdded, nextID, deliverLog>>
           /\ probeQueue[i] # << >>
           /\ Head(probeQueue[i]).TTL > 0)
          => LET p  == Head(probeQueue[i])
                 nb == GetNextTLB(i, p.Direction)[1]
             IN  \/ \E n \in 1 .. Len(probeQueue'[nb]) : probeQueue'[nb][n].ID = p.ID
                 \/ \E n \in 1 .. Len(conn') :
                        /\ conn'[n].type = "ProbeResponse"
                        /\ conn'[n].probe = p.ID
                        /\ conn'[n].Src = << nb >>]_vars

\* The initial TTL of a probe of the given direction (InitiateProbing).
InitialTTL(direction) ==
    IF direction = "clockwise" THEN ClockwiseTTL ELSE CounterclockwiseTTL

\* The TLB k hops from TLB s in the given direction.
HopsFrom(s, direction, k) ==
    IF direction = "clockwise" THEN (s + k) % NumTLBs
    ELSE (s - k + NumTLBs * k) % NumTLBs

\* C17 (as claimed): hop count.  A queued probe has a TTL between 0 and its
\* initial TTL, and a probe that has been forwarded k times (its TTL is k below
\* the initial one) was examined by, and waits at, the TLB k hops from its
\* originator in its direction: one of the 15 other TLBs for a clockwise
\* probe, one of the 4 nearest counterclockwise neighbours otherwise, never
\* the originator.
C17_HopCount ==
    \A t \in TLBIDs : \A n \in 1 .. Len(probeQueue[t]) :
        LET p == probeQueue[t][n]
            k == InitialTTL(p.Direction) - p.TTL
        IN  /\ p.TTL \in 0 .. InitialTTL(p.Direction)
            /\ t = HopsFrom(p.SourceTLB, p.Direction, k)
            /\ k > 0 => t # p.SourceTLB

\* The part of C17 about the TTL alone: a Cycle that finds a probe with
\* TTL > 0 at the head of a ProbeQueue forwards it with its TTL one lower (or
\* it is answered), and a Cycle that finds it with TTL 0 lets it expire and
\* forwards it nowhere.
C17_TTLDecrement ==
    [][\A i \in TLBIDs :
          (UNCHANGED <<reqsAdded, nextID, deliverLog>> /\ probeQueue[i] # << >>)
          => LET p == Head(probeQueue[i])
                 queued == {q \in UNION {{probeQueue'[t][n] : n \in 1 .. Len(probeQueue'[t])}
                                            : t \in TLBIDs} : q.ID = p.ID}
             IN  IF p.TTL > 0
                 THEN /\ termExpiry'[p.ID] = termExpiry[p.ID]
                      /\ \/ \E q \in queued : q.TTL = p.TTL - 1
                         \/ \E n \in 1 .. Len(conn') :
                                conn'[n].type = "ProbeResponse" /\ conn'[n].probe = p.ID
                 ELSE /\ termExpiry'[p.ID] = termExpiry[p.ID] + 1
                      /\ queued = {}]_vars

\* C18 (as claimed): first-wins tie-break.  A Cycle that has nothing to do but
\* deliver one valid ProbeResponse to an originator whose MSHR has no entry for
\* the response's (PID, VAddr), an earlier response with the same page having
\* drained it, sends no TranslationRsp to any client and leaves the
\* originator's set, MSHR and ProbeQueue as they were.
C18_LateResponseDiscarded ==
    [][(/\ UNCHANGED <<reqsAdded, nextID, deliverLog>>
        /\ \A t \in TLBIDs : probeQueue[t] = << >>
        /\ Len(conn) = 1
        /\ conn[1].type = "ProbeResponse"
        /\ conn[1].Page # << >> /\ conn[1].Page[1].Valid
        /\ MSHRQuery(mshr[conn[1].SourceTLB], conn[1].Page[1].PID,
                     conn[1].VirtualAddr) = << >>
        /\ \E d \in drainLog : d.tlb = conn[1].SourceTLB /\ d.page = conn[1].Page[1])
       => /\ topSent' = topSent
          /\ tlbSet'[conn[1].SourceTLB] = tlbSet[conn[1].SourceTLB]
          /\ mshr'[conn[1].SourceTLB] = mshr[conn[1].SourceTLB]
          /\ probeQueue'[conn[1].SourceTLB] = probeQueue[conn[1].SourceTLB]]_vars

\* C19: a Cycle dequeues from each L1's ProbeQueue nothing when it is empty
\* and otherwise exactly one ProbeRequest, its head; the rest of the queue
\* stays in order, and what the Cycle's forwards append behind it stays there:
\* every appended probe was the head of a queue when the Cycle began and has
\* been forwarded once (its TTL is one lower).
C19_OneDequeuePerCycle ==
    [][UNCHANGED <<reqsAdded, nextID, deliverLog>> =>
          \A i \in TLBIDs :
              LET deq == {d \in lastCycle'.dequeued : d[1] = i}
                  old == Len(probeQueue[i])
              IN  IF old = 0
                  THEN deq = {}
                  ELSE /\ deq = {<<i, Head(probeQueue[i]).ID>>}
                       /\ Len(probeQueue'[i]) >= old - 1
                       /\ SubSeq(probeQueue'[i], 1, old - 1) = Tail(probeQueue[i])
                       /\ \A n \in old .. Len(probeQueue'[i]) :
                              \E t \in TLBIDs :
                                  /\ probeQueue[t] # << >>
                                  /\ Head(probeQueue[t]).ID = probeQueue'[i][n].ID
                                  /\ Head(probeQueue[t]).TTL = probeQueue'[i][n].TTL + 1]_vars

\* A Cycle found two probes on an L1's ProbeQueue, dequeued the first and
\* forwarded it; the probe came back to this L1's queue behind the second and
\* both are still there.
C19_Witness ==
    \E i \in Inits :
        /\ lastCycle.dequeued = {<<i.tlb, i.cw>>}
        /\ Len(probeQueue[i.tlb]) = 2
        /\ probeQueue[i.tlb][1].ID = i.ccw
        /\ probeQueue[i.tlb][2].ID = i.cw
        /\ probeQueue[i.tlb][2].TTL = ClockwiseTTL - 1

\* C20 (as claimed): no ProbeQueue ever holds more than ProbeQueueCapacity
\* ProbeRequests.
C20_ProbeQueueBound ==
    \A t \in TLBIDs : Len(probeQueue[t]) <= ProbeQueueCapacity

(***************************************************************************)
(* Further properties of the GMMU.                                         *)
(***************************************************************************)
\* The TranslationRsps enqueued on the top sender for the client of request q,
\* and the TranslationReqs the bottom port accepted for q.
ResponsesFor(log, q) == {n \in 1 .. Len(log) : log[n].Dst = q.Src}
BottomReqsFor(sent, q) == {n \in 1 .. Len(sent) : sent[n].forReq = q.ID}

\* The part of C21 about removal: a Tick takes a transaction off the walking
\* list only if it enqueued a TranslationRsp for it on the top sender or the
\* bottom port accepted a TranslationReq for it, and a transaction with
\* cycleLeft = 0 that the Tick leaves on the list still has cycleLeft = 0.
C21_RemovalOnSuccess ==
    [][\A i \in 1 .. Len(walkingTranslations) :
          LET tr == walkingTranslations[i]
              q  == tr.req
              after == {j \in 1 .. Len(walkingTranslations') :
                           walkingTranslations'[j].req.ID = q.ID}
          IN  /\ after = {} =>
                    \/ ResponsesFor(topSenderLog', q) # ResponsesFor(topSenderLog, q)
                    \/ BottomReqsFor(bottomSent', q) # BottomReqsFor(bottomSent, q)
              /\ (after # {} /\ tr.cycleLeft = 0) =>
                    \A j \in after : walkingTranslations'[j].cycleLeft = 0]_vars

\* The part of C21 about repetition: no request has had more than one
\* TranslationRsp enqueued for it, nor more than one TranslationReq accepted
\* by the bottom port.
C21_NothingTwice ==
    \A m \in 1 .. Len(retrieved) :
        /\ Cardinality(ResponsesFor(topSenderLog, retrieved[m])) <= 1
        /\ Cardinality(BottomReqsFor(bottomSent, retrieved[m])) <= 1

\* C21 (as claimed): GMMU back-pressure.  A transaction leaves the walking
\* list only in a Tick that enqueued its TranslationRsp or got its
\* TranslationReq accepted by the bottom port; a stalled one stays with
\* cycleLeft = 0 for the next Tick; and no TranslationRsp or bottom
\* TranslationReq is emitted twice for a request.
C21_BackPressure == C21_RemovalOnSuccess /\ []C21_NothingTwice

\* C22 (as claimed): the last Cycle returned true if and only if an L1
\* dequeued a probe in it or the connection delivered a message in it.
C22_CycleMadeProgress ==
    lastCycle.madeProgress <=> (lastCycle.dequeued # {} \/ lastCycle.delivered > 0)

\* The TranslationReqs the bottom port accepted whose TranslationRsp
\* handleTranslationRsp has not handled yet: not answered by the low module,
\* or answered with the answer still waiting in the bottom port.
Outstanding ==
    {n \in 1 .. Len(bottomSent) :
        \/ n \notin answered
        \/ \E k \in 1 .. Len(gmmuBottomPort) : gmmuBottomPort[k].RspTo = bottomSent[n].ID}

\* C23 (as claimed): no remote transaction is lost.  As long as the answer to
\* a TranslationReq sent on the bottom port has not been handled,
\* remoteMemReqs holds, under the request's VAddr, the transaction of the
\* client request it was sent for, and the GMMU has not run into a missing
\* one.
C23_RemoteTransactionKept ==
    /\ ~panicked
    /\ \A n \in Outstanding :
           LET e == remoteMemReqs[bottomSent[n].VAddr]
           IN  e # << >> /\ e[1].req.ID = bottomSent[n].forReq

\* C24 (as claimed): every TranslationRsp a step enqueues on the top sender
\* goes to the client of a retrieved request for (PID, VAddr) and carries a
\* page with that PID and VAddr which the page table holds under that key
\* (before or after the step): never the zero Page of a failed lookup, never
\* a page of another PID.
C24_ResponsePage ==
    [][\A n \in (Len(topSenderLog) + 1) .. Len(topSenderLog') :
          LET rsp == topSenderLog'[n]
          IN  \E m \in 1 .. Len(retrieved') :
                  LET q == retrieved'[m]
                  IN  /\ q.Src = rsp.Dst
                      /\ rsp.Page.PID = q.PID
                      /\ rsp.Page.VAddr = q.VAddr
                      /\ \/ pageTable[<<q.PID, q.VAddr>>] = << rsp.Page >>
                         \/ pageTable'[<<q.PID, q.VAddr>>] = << rsp.Page >>]_vars

====
